---- MODULE Spec2Model ----
(***************************************************************************)
(* Model of pkg/user/user.go: the claims normalizer NewUser, the role      *)
(* index queries, Claims.Valid, the frontend-link accumulator and the      *)
(* checkpoint parser.                                                      *)
(*                                                                         *)
(* Go strings are sequences of indivisible chunks; the chunk " " is the    *)
(* space character, so strings.Split and strings.Join are computed.        *)
(* A Go interface{} value is a pair <<dynamic type, value>>.                *)
(* A Go map[string]interface{} is a function whose domain is a set of Go   *)
(* strings.                                                                *)
(***************************************************************************)
EXTENDS Integers, Sequences, FiniteSets, TLC

VARIABLES
    phase,    \* "init" before the call under study, "built"/"failed"/"done" after
    data,     \* the argument handed to NewUser
    u,        \* the *User returned by NewUser (u.isNil when none)
    err,      \* the error returned by the last constructor call
    ret       \* the last call of an accessor or helper: [op, arg, val], val
              \* being what it returned (for AddFrontendLinks, which returns
              \* only an error, the links held before the call)

vars == <<phase, data, u, err, ret>>

----------------------------------------------------------------------------
(* Go values *)

T(val) == val[1]                    \* the dynamic type of a Go value
V(val) == val[2]                    \* and the value it holds
K(x) == <<x>>                       \* a Go string literal made of one chunk
SP == " "                           \* the space character

GoStr(s)    == <<"string", s>>
GoList(xs)  == <<"[]interface{}", xs>>
GoStrs(xs)  == <<"[]string", xs>>
GoMap(f)    == <<"map[string]interface{}", f>>
GoFloat(h)  == <<"float64", h>>       \* v counts halves: h/2
GoInt(n)    == <<"int", n>>
GoInt64(n)  == <<"int64", n>>
GoNumber(h) == <<"json.Number", h>>   \* decimal literal h/2
GoBool(b)   == <<"bool", b>>
GoNil       == <<"nil", FALSE>>

EmptyMap == <<>>
NoArgs == <<>>

Has(m, k) == K(k) \in DOMAIN m
Get(m, k) == m[K(k)]
Put(m, k, val) == [x \in (DOMAIN m) \cup {k} |-> IF x = k THEN val ELSE m[x]]

\* strings.Split(s, " ")
RECURSIVE Split(_)
Split(s) ==
    IF \A i \in DOMAIN s : s[i] # SP
    THEN <<s>>
    ELSE LET i == CHOOSE i \in DOMAIN s :
                      s[i] = SP /\ \A j \in 1..(i - 1) : s[j] # SP
         IN  <<SubSeq(s, 1, i - 1)>> \o Split(SubSeq(s, i + 1, Len(s)))

\* strings.Join(xs, " ")
RECURSIVE Join(_)
Join(xs) ==
    IF xs = <<>> THEN <<>>
    ELSE IF Len(xs) = 1 THEN xs[1]
    ELSE xs[1] \o <<SP>> \o Join(Tail(xs))

\* int64(x) of a float64 counted in halves: truncation toward zero
TruncHalves(h) == IF h >= 0 THEN h \div 2 ELSE -((-h) \div 2)

\* json.Number.Int64(): strconv.ParseInt of the literal; 0 when it is no integer
NumberInt64(h) == IF h % 2 = 0 THEN h \div 2 ELSE 0

IsNumeric(val) == T(val) \in {"float64", "int", "int64", "json.Number"}

\* the switch over float64 / int / int64 / json.Number of the three timestamps
ToInt64(val) ==
    CASE T(val) = "float64"     -> TruncHalves(V(val))
      [] T(val) = "int"         -> V(val)
      [] T(val) = "int64"       -> V(val)
      [] T(val) = "json.Number" -> NumberInt64(V(val))

\* a []interface{} whose elements are all strings, and those strings
AllStrings(xs) == \A i \in DOMAIN xs : T(xs[i]) = "string"
StringsOf(xs) == [i \in DOMAIN xs |-> V(xs[i])]

SeqToSet(xs) == {xs[i] : i \in DOMAIN xs}

----------------------------------------------------------------------------
(* JSON documents: a text is represented by its syntax tree, or "invalid"  *)
(* when it is not well-formed JSON; json.Unmarshal turns the tree into Go  *)
(* values (array -> []interface{}, number -> float64, object -> map).      *)

JStr(s)  == <<"string", s>>
JNum(h)  == <<"number", h>>
JArr(xs) == <<"array", xs>>
JObj(f)  == <<"object", f>>
JNull    == <<"null", FALSE>>
JBad     == <<"invalid", FALSE>>

RECURSIVE FromJSON(_)
FromJSON(x) ==
    CASE T(x) = "string" -> GoStr(V(x))
      [] T(x) = "number" -> GoFloat(V(x))
      [] T(x) = "array"  -> GoList([i \in DOMAIN V(x) |-> FromJSON(V(x)[i])])
      [] T(x) = "object" -> GoMap([k \in DOMAIN V(x) |-> FromJSON(V(x)[k])])
      [] T(x) = "null"   -> GoNil

\* json.Unmarshal(text, &m) with m a map[string]interface{}
Unmarshal(x) ==
    CASE T(x) = "invalid" -> [err |-> "json.SyntaxError", m |-> EmptyMap]
      [] T(x) = "object"  -> [err |-> "nil", m |-> V(FromJSON(x))]
      [] T(x) = "null"    -> [err |-> "nil", m |-> EmptyMap]
      [] OTHER           -> [err |-> "json.UnmarshalTypeError", m |-> EmptyMap]

\* the arguments of NewUser
DataString(x) == <<"string", x>>
DataBytes(x)  == <<"[]uint8", x>>
DataMap(m)    == GoMap(m)

----------------------------------------------------------------------------
(* NewUser: the normalizer.  st = [c, mkv, tkv, err] is the function's     *)
(* local state; a step that returns an error sets st.err and every later   *)
(* step is skipped.                                                        *)

NilAccessList == [isNil |-> TRUE, Paths |-> EmptyMap]

\* c := &Claims{}
ZeroClaims ==
    [Audience |-> <<>>, ExpiresAt |-> 0, ID |-> <<>>, IssuedAt |-> 0,
     Issuer |-> <<>>, NotBefore |-> 0, Subject |-> <<>>, Name |-> <<>>,
     Email |-> <<>>, Roles |-> <<>>, Origin |-> <<>>, Scopes |-> <<>>,
     Organizations |-> <<>>, AccessList |-> NilAccessList, Address |-> <<>>,
     PictureURL |-> <<>>, Metadata |-> EmptyMap, Username |-> <<>>]

ZeroState == [c |-> ZeroClaims, mkv |-> EmptyMap, tkv |-> EmptyMap, err |-> "nil"]

Fail(st, e) == [st EXCEPT !.err = e]

\* StepAud storing the list in the full projection whatever its length
StepAudAlwaysList(m, st) ==
    IF st.err # "nil" \/ ~Has(m, "aud") THEN st
    ELSE LET a == Get(m, "aud")
             withAud(xs) ==
                 IF Len(xs) = 0 THEN [st EXCEPT !.c.Audience = xs]
                 ELSE [st EXCEPT !.c.Audience = xs,
                                 !.tkv = Put(@, K("aud"), GoStrs(xs)),
                                 !.mkv = Put(@, K("aud"), GoStrs(xs))]
         IN  CASE T(a) = "string" -> withAud(<<V(a)>>)
               [] T(a) = "[]interface{}" ->
                    IF AllStrings(V(a)) THEN withAud(StringsOf(V(a)))
                    ELSE Fail(st, "ErrInvalidAudience")
               [] T(a) = "[]string" -> withAud(V(a))
               [] OTHER -> Fail(st, "ErrInvalidAudienceType")

\* lines 266-295
StepAud(m, st) ==
    IF st.err # "nil" \/ ~Has(m, "aud") THEN st
    ELSE LET a == Get(m, "aud")
             withAud(xs) ==
                 LET aud == st.c.Audience \o xs
                     st1 == [st EXCEPT !.c.Audience = aud]
                 IN  IF Len(aud) = 0 THEN st1
                     ELSE IF Len(aud) = 1
                     THEN [st1 EXCEPT !.tkv = Put(@, K("aud"), GoStrs(aud)),
                                      !.mkv = Put(@, K("aud"), GoStr(aud[1]))]
                     ELSE [st1 EXCEPT !.tkv = Put(@, K("aud"), GoStrs(aud)),
                                      !.mkv = Put(@, K("aud"), GoStrs(aud))]
         IN  CASE T(a) = "string" -> withAud(<<V(a)>>)
               [] T(a) = "[]interface{}" ->
                    IF AllStrings(V(a)) THEN withAud(StringsOf(V(a)))
                    ELSE Fail(st, "ErrInvalidAudience")
               [] T(a) = "[]string" -> withAud(V(a))
               [] OTHER -> Fail(st, "ErrInvalidAudienceType")

\* lines 297-312
StepExp(m, st) ==
    IF st.err # "nil" \/ ~Has(m, "exp") THEN st
    ELSE LET x == Get(m, "exp")
         IN  IF IsNumeric(x)
             THEN [st EXCEPT !.c.ExpiresAt = ToInt64(x),
                             !.mkv = Put(@, K("exp"), GoInt64(ToInt64(x)))]
             ELSE Fail(st, "ErrInvalidClaimExpiresAt")

\* lines 314-323
StepJti(m, st) ==
    IF st.err # "nil" \/ ~Has(m, "jti") THEN st
    ELSE LET x == Get(m, "jti")
         IN  IF T(x) = "string"
             THEN [st EXCEPT !.c.ID = V(x),
                             !.tkv = Put(@, K("jti"), GoStr(V(x))),
                             !.mkv = Put(@, K("jti"), GoStr(V(x)))]
             ELSE Fail(st, "ErrInvalidIDClaimType")

\* lines 325-340
StepIat(m, st) ==
    IF st.err # "nil" \/ ~Has(m, "iat") THEN st
    ELSE LET x == Get(m, "iat")
         IN  IF IsNumeric(x)
             THEN [st EXCEPT !.c.IssuedAt = ToInt64(x),
                             !.mkv = Put(@, K("iat"), GoInt64(ToInt64(x)))]
             ELSE Fail(st, "ErrInvalidClaimIssuedAt")

\* lines 342-351
StepIss(m, st) ==
    IF st.err # "nil" \/ ~Has(m, "iss") THEN st
    ELSE LET x == Get(m, "iss")
         IN  IF T(x) = "string"
             THEN [st EXCEPT !.c.Issuer = V(x),
                             !.tkv = Put(@, K("iss"), GoStr(V(x))),
                             !.mkv = Put(@, K("iss"), GoStr(V(x)))]
             ELSE Fail(st, "ErrInvalidIssuerClaimType")

\* lines 353-368
StepNbf(m, st) ==
    IF st.err # "nil" \/ ~Has(m, "nbf") THEN st
    ELSE LET x == Get(m, "nbf")
         IN  IF IsNumeric(x)
             THEN [st EXCEPT !.c.NotBefore = ToInt64(x),
                             !.mkv = Put(@, K("nbf"), GoInt64(ToInt64(x)))]
             ELSE Fail(st, "ErrInvalidClaimNotBefore")

\* lines 370-379
StepSub(m, st) ==
    IF st.err # "nil" \/ ~Has(m, "sub") THEN st
    ELSE LET x == Get(m, "sub")
         IN  IF T(x) = "string"
             THEN [st EXCEPT !.c.Subject = V(x),
                             !.tkv = Put(@, K("sub"), GoStr(V(x))),
                             !.mkv = Put(@, K("sub"), GoStr(V(x)))]
             ELSE Fail(st, "ErrInvalidSubjectClaimType")

\* lines 382-389: one iteration of the loop over "email", "mail"
StepEmailKey(m, st, ma) ==
    IF st.err # "nil" \/ ~Has(m, ma) THEN st
    ELSE LET x == Get(m, ma)
         IN  IF T(x) = "string" THEN [st EXCEPT !.c.Email = V(x)]
             ELSE Fail(st, "ErrInvalidEmailClaimType")

\* StepEmail keeping the first of "email" and "mail" that is present
StepEmailFirstMatchWins(m, st) ==
    LET st2 == IF Has(m, "email") THEN StepEmailKey(m, st, "email")
               ELSE StepEmailKey(m, st, "mail")
    IN  IF st2.err # "nil" \/ st2.c.Email = <<>> THEN st2
        ELSE [st2 EXCEPT !.tkv = Put(@, K("mail"), GoStr(st2.c.Email)),
                         !.mkv = Put(@, K("mail"), GoStr(st2.c.Email))]

\* lines 381-394
StepEmail(m, st) ==
    LET st2 == StepEmailKey(m, StepEmailKey(m, st, "email"), "mail")
    IN  IF st2.err # "nil" \/ st2.c.Email = <<>> THEN st2
        ELSE [st2 EXCEPT !.tkv = Put(@, K("mail"), GoStr(st2.c.Email)),
                         !.mkv = Put(@, K("mail"), GoStr(st2.c.Email))]

\* lines 401-414: the elements of a name list that are not the email
RECURSIVE PackNames(_, _)
PackNames(names, email) ==
    IF names = <<>> THEN <<>>
    ELSE IF Head(names) = email THEN PackNames(Tail(names), email)
    ELSE <<Head(names)>> \o PackNames(Tail(names), email)

\* lines 396-420
StepName(m, st) ==
    IF st.err # "nil" \/ ~Has(m, "name") THEN st
    ELSE LET x == Get(m, "name")
             withName(n) == [st EXCEPT !.c.Name = n,
                                       !.tkv = Put(@, K("name"), GoStr(n)),
                                       !.mkv = Put(@, K("name"), GoStr(n))]
         IN  CASE T(x) = "string" -> withName(V(x))
               [] T(x) = "[]interface{}" ->
                    IF AllStrings(V(x))
                    THEN withName(Join(PackNames(StringsOf(V(x)), st.c.Email)))
                    ELSE Fail(st, "ErrInvalidNameClaimType")
               [] OTHER -> Fail(st, "ErrInvalidNameClaimType")

\* lines 423-445: one iteration of the loop over "roles", "role", "groups", "group"
StepRoleKey(m, st, ra) ==
    IF st.err # "nil" \/ ~Has(m, ra) THEN st
    ELSE LET x == Get(m, ra)
         IN  CASE T(x) = "[]interface{}" ->
                    IF AllStrings(V(x))
                    THEN [st EXCEPT !.c.Roles = @ \o StringsOf(V(x))]
                    ELSE Fail(st, "ErrInvalidRole")
               [] T(x) = "[]string" -> [st EXCEPT !.c.Roles = @ \o V(x)]
               [] T(x) = "string" -> [st EXCEPT !.c.Roles = @ \o Split(V(x))]
               [] OTHER -> Fail(st, "ErrInvalidRoleType")

\* lines 422-446
StepRoles(m, st) ==
    StepRoleKey(m, StepRoleKey(m, StepRoleKey(m, StepRoleKey(m, st,
        "roles"), "role"), "groups"), "group")

\* lines 448-478
StepAppMetadata(m, st) ==
    IF st.err # "nil" \/ ~Has(m, "app_metadata") THEN st
    ELSE LET am == Get(m, "app_metadata")
         IN  IF T(am) # "map[string]interface{}" \/ ~Has(V(am), "authorization")
             THEN st
             ELSE LET az == Get(V(am), "authorization")
                  IN  IF T(az) # "map[string]interface{}" \/ ~Has(V(az), "roles")
                      THEN st
                      ELSE LET x == Get(V(az), "roles")
                           IN  CASE T(x) = "[]interface{}" ->
                                      IF AllStrings(V(x))
                                      THEN [st EXCEPT !.c.Roles = @ \o StringsOf(V(x))]
                                      ELSE Fail(st, "ErrInvalidRole")
                                 [] T(x) = "[]string" ->
                                      [st EXCEPT !.c.Roles = @ \o V(x)]
                                 [] OTHER ->
                                      Fail(st, "ErrInvalidAppMetadataRoleType")

\* StepRealmAccess skipping the elements that are not strings
StepRealmAccessSkippingNonStrings(m, st) ==
    IF st.err # "nil" \/ ~Has(m, "realm_access") THEN st
    ELSE LET ra == Get(m, "realm_access")
         IN  IF T(ra) # "map[string]interface{}" \/ ~Has(V(ra), "roles")
             THEN st
             ELSE LET x == Get(V(ra), "roles")
                  IN  CASE T(x) = "[]interface{}" ->
                             [st EXCEPT !.c.Roles = @ \o StringsOf(
                                 SelectSeq(V(x), LAMBDA e : T(e) = "string"))]
                        [] T(x) = "[]string" -> [st EXCEPT !.c.Roles = @ \o V(x)]
                        [] OTHER -> st

\* lines 480-502
StepRealmAccess(m, st) ==
    IF st.err # "nil" \/ ~Has(m, "realm_access") THEN st
    ELSE LET ra == Get(m, "realm_access")
         IN  IF T(ra) # "map[string]interface{}" \/ ~Has(V(ra), "roles")
             THEN st
             ELSE LET x == Get(V(ra), "roles")
                  IN  CASE T(x) = "[]interface{}" ->
                             IF AllStrings(V(x))
                             THEN [st EXCEPT !.c.Roles = @ \o StringsOf(V(x))]
                             ELSE Fail(st, "ErrInvalidRole")
                        [] T(x) = "[]string" -> [st EXCEPT !.c.Roles = @ \o V(x)]
                        [] OTHER -> st

\* lines 505-527: one iteration of the loop over "scopes", "scope"
StepScopeKey(m, st, ra) ==
    IF st.err # "nil" \/ ~Has(m, ra) THEN st
    ELSE LET x == Get(m, ra)
         IN  CASE T(x) = "[]interface{}" ->
                    IF AllStrings(V(x))
                    THEN [st EXCEPT !.c.Scopes = @ \o StringsOf(V(x))]
                    ELSE Fail(st, "ErrInvalidScope")
               [] T(x) = "[]string" -> [st EXCEPT !.c.Scopes = @ \o V(x)]
               [] T(x) = "string" -> [st EXCEPT !.c.Scopes = @ \o Split(V(x))]
               [] OTHER -> Fail(st, "ErrInvalidScopeType")

\* lines 504-533
StepScopes(m, st) ==
    LET st2 == StepScopeKey(m, StepScopeKey(m, st, "scopes"), "scope")
    IN  IF st2.err # "nil" \/ Len(st2.c.Scopes) = 0 THEN st2
        ELSE [st2 EXCEPT !.tkv = Put(@, K("scopes"), GoStrs(st2.c.Scopes)),
                         !.mkv = Put(@, K("scopes"), GoStr(Join(st2.c.Scopes)))]

\* PutPaths allocating a fresh map for every source, dropping the earlier paths
PutPathsReplacing(al, ps) ==
    IF ps = {} THEN al
    ELSE [isNil |-> FALSE, Paths |-> [p \in ps |-> GoMap(EmptyMap)]]

\* lines 542-548, 565-571, 578-584: c.AccessList.Paths[path] = make(map), the
\* claim and its map being allocated by the first path written
PutPaths(al, ps) ==
    IF ps = {} THEN al
    ELSE [isNil |-> FALSE,
          Paths |-> [p \in (DOMAIN al.Paths) \cup ps |-> GoMap(EmptyMap)]]

\* lines 535-554
StepPaths(m, st) ==
    IF st.err # "nil" \/ ~Has(m, "paths") THEN st
    ELSE LET x == Get(m, "paths")
         IN  IF T(x) = "[]interface{}"
             THEN IF AllStrings(V(x))
                  THEN [st EXCEPT !.c.AccessList = PutPaths(@, SeqToSet(StringsOf(V(x))))]
                  ELSE Fail(st, "ErrInvalidAccessListPath")
             ELSE st

\* lines 556-592
StepAcl(m, st) ==
    IF st.err # "nil" \/ ~Has(m, "acl") THEN st
    ELSE LET acl == Get(m, "acl")
         IN  IF T(acl) # "map[string]interface{}" \/ ~Has(V(acl), "paths")
             THEN st
             ELSE LET x == Get(V(acl), "paths")
                  IN  CASE T(x) = "map[string]interface{}" ->
                             [st EXCEPT !.c.AccessList = PutPaths(@, DOMAIN V(x))]
                        [] T(x) = "[]interface{}" ->
                             IF AllStrings(V(x))
                             THEN [st EXCEPT !.c.AccessList =
                                       PutPaths(@, SeqToSet(StringsOf(V(x))))]
                             ELSE Fail(st, "ErrInvalidAccessListPath")
                        [] OTHER -> st

\* lines 594-601
StepAclProjection(st) ==
    IF st.err # "nil" \/ st.c.AccessList.isNil THEN st
    ELSE LET acl == GoMap(K("paths") :> GoMap(st.c.AccessList.Paths))
         IN  [st EXCEPT !.tkv = Put(@, K("acl"), acl),
                        !.mkv = Put(@, K("acl"), acl)]

\* lines 603-612
StepOrigin(m, st) ==
    IF st.err # "nil" \/ ~Has(m, "origin") THEN st
    ELSE LET x == Get(m, "origin")
         IN  IF T(x) = "string"
             THEN [st EXCEPT !.c.Origin = V(x),
                             !.tkv = Put(@, K("origin"), GoStr(V(x))),
                             !.mkv = Put(@, K("origin"), GoStr(V(x)))]
             ELSE Fail(st, "ErrInvalidOriginClaimType")

\* lines 614-638
StepOrg(m, st) ==
    IF st.err # "nil" \/ ~Has(m, "org") THEN st
    ELSE LET x == Get(m, "org")
             withOrgs(xs) ==
                 LET orgs == st.c.Organizations \o xs
                 IN  [st EXCEPT !.c.Organizations = orgs,
                                !.tkv = Put(@, K("org"), GoStrs(orgs)),
                                !.mkv = Put(@, K("org"), GoStr(Join(orgs)))]
         IN  CASE T(x) = "[]interface{}" ->
                    IF AllStrings(V(x)) THEN withOrgs(StringsOf(V(x)))
                    ELSE Fail(st, "ErrInvalidOrg")
               [] T(x) = "[]string" -> withOrgs(V(x))
               [] T(x) = "string" -> withOrgs(Split(V(x)))
               [] OTHER -> Fail(st, "ErrInvalidOrgType")

\* lines 640-649
StepAddr(m, st) ==
    IF st.err # "nil" \/ ~Has(m, "addr") THEN st
    ELSE LET x == Get(m, "addr")
         IN  IF T(x) = "string"
             THEN [st EXCEPT !.c.Address = V(x),
                             !.tkv = Put(@, K("addr"), GoStr(V(x))),
                             !.mkv = Put(@, K("addr"), GoStr(V(x)))]
             ELSE Fail(st, "ErrInvalidAddrType")

\* lines 651-659
StepPicture(m, st) ==
    IF st.err # "nil" \/ ~Has(m, "picture") THEN st
    ELSE LET x == Get(m, "picture")
         IN  IF T(x) = "string"
             THEN [st EXCEPT !.c.PictureURL = V(x),
                             !.mkv = Put(@, K("picture"), GoStr(V(x)))]
             ELSE Fail(st, "ErrInvalidPictureClaimType")

\* lines 661-669
StepMetadata(m, st) ==
    IF st.err # "nil" \/ ~Has(m, "metadata") THEN st
    ELSE LET x == Get(m, "metadata")
         IN  IF T(x) = "map[string]interface{}"
             THEN [st EXCEPT !.c.Metadata = V(x),
                             !.mkv = Put(@, K("metadata"), GoMap(V(x)))]
             ELSE Fail(st, "ErrInvalidMetadataClaimType")

\* lines 671-679
StepUsername(m, st) ==
    IF st.err # "nil" \/ ~Has(m, "username") THEN st
    ELSE LET x == Get(m, "username")
         IN  IF T(x) = "string"
             THEN [st EXCEPT !.c.Username = V(x),
                             !.mkv = Put(@, K("username"), GoStr(V(x)))]
             ELSE Fail(st, "ErrInvalidMetadataClaimType")

\* StepDefaultRoles seeding "anonymous" alone
StepDefaultRolesOnlyAnonymous(st) ==
    IF st.err # "nil" THEN st
    ELSE LET roles == IF Len(st.c.Roles) = 0 THEN <<K("anonymous")>>
                      ELSE st.c.Roles
         IN  [st EXCEPT !.c.Roles = roles,
                        !.tkv = Put(@, K("roles"), GoStrs(roles)),
                        !.mkv = Put(@, K("roles"), GoStrs(roles))]

\* lines 681-686
StepDefaultRoles(st) ==
    IF st.err # "nil" THEN st
    ELSE LET roles == IF Len(st.c.Roles) = 0
                      THEN <<K("anonymous"), K("guest")>>
                      ELSE st.c.Roles
         IN  [st EXCEPT !.c.Roles = roles,
                        !.tkv = Put(@, K("roles"), GoStrs(roles)),
                        !.mkv = Put(@, K("roles"), GoStrs(roles))]

\* RoleIndex leaving the first role out
RoleIndexWithoutFirst(roles) == [r \in SeqToSet(Tail(roles)) |-> GoBool(TRUE)]

\* lines 688-691: u.rkv
RoleIndex(roles) == [r \in SeqToSet(roles) |-> GoBool(TRUE)]

\* DecodeData dropping the error of json.Unmarshal
DecodeDataIgnoringError(d) ==
    CASE T(d) \in {"string", "[]uint8"} -> [err |-> "nil", m |-> Unmarshal(V(d)).m]
      [] T(d) = "map[string]interface{}" -> [err |-> "nil", m |-> V(d)]
      [] OTHER -> [err |-> "nil", m |-> EmptyMap]

\* lines 243-256: the switch over the argument's dynamic type
DecodeData(d) ==
    CASE T(d) \in {"string", "[]uint8"} -> Unmarshal(V(d))
      [] T(d) = "map[string]interface{}" -> [err |-> "nil", m |-> V(d)]
      [] OTHER -> [err |-> "nil", m |-> EmptyMap]

\* lines 262-686: the field steps in source order
Normalize(m) ==
    LET s1  == StepSub(m, StepNbf(m, StepIss(m, StepIat(m, StepJti(m,
                   StepExp(m, StepAud(m, ZeroState)))))))
        s2  == StepScopes(m, StepRealmAccess(m, StepAppMetadata(m,
                   StepRoles(m, StepName(m, StepEmail(m, s1))))))
        s3  == StepAclProjection(StepAcl(m, StepPaths(m, s2)))
        s4  == StepUsername(m, StepMetadata(m, StepPicture(m, StepAddr(m,
                   StepOrg(m, StepOrigin(m, s3))))))
    IN  StepDefaultRoles(s4)

\* u := &User{}
ZeroUser ==
    [isNil |-> FALSE, Claims |-> ZeroClaims, mkv |-> EmptyMap, tkv |-> EmptyMap,
     rkv |-> EmptyMap, FrontendLinks |-> <<>>, Checkpoints |-> <<>>,
     Authorized |-> FALSE, Locked |-> FALSE, Cached |-> FALSE,
     requestHeaders |-> EmptyMap, requestIdentity |-> EmptyMap]

NilUser == [ZeroUser EXCEPT !.isNil = TRUE]

\* lines 239-713
NewUser(d) ==
    LET dec == DecodeData(d)
    IN  IF dec.err # "nil" THEN [user |-> NilUser, err |-> dec.err]
        ELSE IF Cardinality(DOMAIN dec.m) = 0
        THEN [user |-> NilUser, err |-> "ErrInvalidUserDataType"]
        ELSE LET st == Normalize(dec.m)
             IN  IF st.err # "nil" THEN [user |-> NilUser, err |-> st.err]
                 ELSE [user |-> [ZeroUser EXCEPT !.Claims = st.c,
                                                 !.mkv = st.mkv,
                                                 !.tkv = st.tkv,
                                                 !.rkv = RoleIndex(st.c.Roles)],
                       err |-> "nil"]

\* lines 219-226
HasRole(usr, roles) == \E i \in DOMAIN roles : roles[i] \in DOMAIN usr.rkv

\* lines 229-236
HasRoles(usr, roles) == \A i \in DOMAIN roles : roles[i] \in DOMAIN usr.rkv

\* Valid with a non-strict comparison
ValidNonStrict(c, now) == IF c.ExpiresAt <= now THEN "ErrExpiredToken" ELSE "nil"

\* lines 112-117, now being time.Now().Unix()
Valid(c, now) == IF c.ExpiresAt < now THEN "ErrExpiredToken" ELSE "nil"

\* lines 753-768; fmt.Sprintf("%v", data) is kept as the rendering of data
Sprintf(x) == <<<<"%v", x>>>>

GetClaimValueByField(usr, k) ==
    IF k \notin DOMAIN usr.mkv THEN <<>>
    ELSE LET x == usr.mkv[k]
         IN  CASE T(x) = "string" -> V(x)
               [] T(x) = "[]string" -> Join(V(x))
               [] OTHER -> Sprintf(x)

\* lines 735-748: the entries appended to the links already held
NewLinks(links, entries) ==
    LET m0 == [e \in SeqToSet(entries) |-> TRUE]
        m1 == [e \in DOMAIN m0 |-> IF e \in SeqToSet(links) THEN FALSE ELSE m0[e]]
    IN  SelectSeq(entries, LAMBDA e : m1[e])

\* WithLinks recording the links in the full projection as well
WithLinksPatchingProjection(usr, entries) ==
    [usr EXCEPT !.FrontendLinks = @ \o NewLinks(@, entries),
                !.mkv = Put(@, K("frontend_links"),
                            GoStrs(usr.FrontendLinks \o NewLinks(usr.FrontendLinks, entries)))]

\* lines 744-748: u.FrontendLinks = append(u.FrontendLinks, entry)
WithLinks(usr, entries) ==
    [usr EXCEPT !.FrontendLinks = @ \o NewLinks(@, entries)]

\* lines 716-750
AddFrontendLinks(usr, val) ==
    CASE T(val) = "string" -> [user |-> WithLinks(usr, <<V(val)>>), err |-> "nil"]
      [] T(val) = "[]string" -> [user |-> WithLinks(usr, V(val)), err |-> "nil"]
      [] T(val) = "[]interface{}" ->
           IF AllStrings(V(val))
           THEN [user |-> WithLinks(usr, StringsOf(V(val))), err |-> "nil"]
           ELSE [user |-> usr, err |-> "ErrCheckpointInvalidType"]
      [] OTHER -> [user |-> usr, err |-> "ErrFrontendLinkInvalidType"]

\* cfgutils.DecodeArgs: the space-separated arguments of a directive; a
\* directive without any text has none and is an error
DecodeArgs(str) ==
    IF str = <<>> THEN [err |-> "EOF", args |-> <<>>]
    ELSE [err |-> "nil", args |-> Split(str)]

\* c := &Checkpoint{}
ZeroCheckpoint ==
    [ID |-> 0, Name |-> <<>>, Type |-> <<>>, Parameters |-> <<>>,
     Passed |-> FALSE, FailedAttempts |-> 0]

\* NewCheckpoint taking any argument of require for mfa
NewCheckpointAnyArgument(str) ==
    LET d == DecodeArgs(str)
    IN  IF d.err # "nil" THEN [err |-> d.err, c |-> ZeroCheckpoint]
        ELSE IF d.args[1] = K("require") /\ Len(d.args) = 2
        THEN [err |-> "nil",
              c |-> [ZeroCheckpoint EXCEPT !.Name = K("Multi-factor authentication"),
                                           !.Type = K("mfa")]]
        ELSE [err |-> "unsupported", c |-> ZeroCheckpoint]

\* lines 806-828
NewCheckpoint(str) ==
    LET d == DecodeArgs(str)
    IN  IF d.err # "nil" THEN [err |-> d.err, c |-> ZeroCheckpoint]
        ELSE IF d.args[1] = K("require")
        THEN IF Len(d.args) # 2
             THEN [err |-> "must contain two keywords", c |-> ZeroCheckpoint]
             ELSE IF d.args[2] = K("mfa")
             THEN [err |-> "nil",
                   c |-> [ZeroCheckpoint EXCEPT
                              !.Name = K("Multi-factor authentication"),
                              !.Type = K("mfa")]]
             ELSE [err |-> "unsupported require keyword", c |-> ZeroCheckpoint]
        ELSE [err |-> "unsupported keyword", c |-> ZeroCheckpoint]

\* lines 791-802: the loop over the entries, i being the zero-based index
CheckpointsOf(entries) ==
    IF \E i \in DOMAIN entries : NewCheckpoint(entries[i]).err # "nil"
    THEN [err |-> "ErrCheckpointInvalidInput", checkpoints |-> <<>>]
    ELSE IF Len(entries) < 1
    THEN [err |-> "ErrCheckpointEmpty", checkpoints |-> <<>>]
    ELSE [err |-> "nil",
          checkpoints |-> [i \in DOMAIN entries |->
                              [NewCheckpoint(entries[i]).c EXCEPT !.ID = i - 1]]]

\* lines 771-803
NewCheckpoints(val) ==
    CASE T(val) = "string" -> CheckpointsOf(<<V(val)>>)
      [] T(val) = "[]string" -> CheckpointsOf(V(val))
      [] T(val) = "[]interface{}" ->
           IF AllStrings(V(val)) THEN CheckpointsOf(StringsOf(V(val)))
           ELSE [err |-> "ErrCheckpointInvalidType", checkpoints |-> <<>>]
      [] OTHER -> [err |-> "ErrCheckpointInvalidType", checkpoints |-> <<>>]

----------------------------------------------------------------------------
(* The arguments NewUser is called with. *)

MaxKeys == 2            \* keys present in one input dictionary

Bad == GoBool(TRUE)     \* a value of a type no field accepts
One == GoInt(1)         \* a non-string list element

Admin     == K("admin")
Editor    == K("editor")
Viewer    == K("viewer")
Anonymous == K("anonymous")
Guest     == K("guest")
PathA     == K("/a")
PathB     == K("/b")
X         == K("x")
Y         == K("y")
Email1    == K("e@x")
Email2    == K("m@x")

AuthzRoles(x) == GoMap(K("authorization") :> GoMap(K("roles") :> x))
RolesMap(x)   == GoMap(K("roles") :> x)
PathsMap(x)   == GoMap(K("paths") :> x)
PathDict(ps)  == GoMap([p \in ps |-> GoMap(EmptyMap)])

Keys ==
    {"aud", "exp", "jti", "iat", "iss", "nbf", "sub", "email", "mail", "name",
     "roles", "role", "groups", "group", "app_metadata", "realm_access",
     "scopes", "scope", "paths", "acl", "origin", "org", "addr", "picture",
     "metadata", "username"}

\* the values tried under each key: every accepted shape and some rejected ones
Pool(k) ==
    CASE k = "aud" ->
           {GoStr(X), GoList(<<>>), GoList(<<GoStr(X)>>),
            GoList(<<GoStr(X), GoStr(Y)>>), GoList(<<GoStr(X), One>>),
            GoStrs(<<>>), GoStrs(<<X, Y>>), Bad}
      [] k = "exp" ->
           {GoFloat(3), GoFloat(4), GoInt(1), GoInt64(2), GoNumber(4),
            GoNumber(3), GoStr(X)}
      [] k \in {"iat", "nbf"} -> {GoFloat(3), GoNumber(2), GoStr(X)}
      [] k \in {"jti", "iss", "sub", "origin", "addr", "picture", "username"} ->
           {GoStr(X), Bad}
      [] k = "email" -> {GoStr(Email1), GoStr(<<>>), Bad}
      [] k = "mail" -> {GoStr(Email2), GoStr(<<>>), Bad}
      [] k = "name" ->
           {GoStr(X), GoList(<<GoStr(Email1), GoStr(X), GoStr(Y)>>),
            GoList(<<GoStr(X), One>>), GoStrs(<<X>>), Bad}
      [] k = "roles" ->
           {GoList(<<>>), GoList(<<GoStr(Admin)>>), GoList(<<GoStr(Admin), One>>),
            GoStrs(<<Admin, Editor>>), GoStr(<<"admin", SP, "editor">>),
            GoStr(<<>>), Bad}
      [] k = "role" -> {GoStr(Editor), GoList(<<GoStr(Guest)>>), Bad}
      [] k = "groups" -> {GoList(<<GoStr(Admin), GoStr(Admin)>>), GoStrs(<<>>), Bad}
      [] k = "group" -> {GoStr(Viewer), GoList(<<One>>), Bad}
      [] k = "app_metadata" ->
           {AuthzRoles(GoList(<<GoStr(Admin)>>)), AuthzRoles(GoList(<<>>)),
            AuthzRoles(GoList(<<GoStr(Admin), One>>)),
            AuthzRoles(GoStrs(<<Editor>>)), AuthzRoles(GoStr(Admin)),
            GoMap(K("authorization") :> Bad), GoMap(EmptyMap), Bad}
      [] k = "realm_access" ->
           {RolesMap(GoList(<<GoStr(Viewer)>>)), RolesMap(GoList(<<>>)),
            RolesMap(GoList(<<One, GoStr(Viewer)>>)),
            RolesMap(GoStrs(<<Viewer, Guest>>)), RolesMap(GoStr(Viewer)),
            GoMap(EmptyMap), Bad}
      [] k = "scopes" ->
           {GoList(<<GoStr(X)>>), GoStr(<<"x", SP, "y">>), GoList(<<One>>), Bad}
      [] k = "scope" -> {GoStrs(<<Y>>), GoStr(Y), Bad}
      [] k = "paths" ->
           {GoList(<<>>), GoList(<<GoStr(PathA)>>),
            GoList(<<GoStr(PathA), GoStr(PathB)>>), GoList(<<GoStr(PathA), One>>),
            GoStrs(<<PathA>>), GoStr(PathA), Bad}
      [] k = "acl" ->
           {PathsMap(GoList(<<GoStr(PathA), GoStr(PathB)>>)),
            PathsMap(PathDict({PathA, PathB})),
            PathsMap(GoList(<<GoStr(PathB)>>)), PathsMap(PathDict({PathB})),
            PathsMap(GoList(<<>>)), PathsMap(PathDict({})),
            PathsMap(GoList(<<GoStr(PathB), One>>)), PathsMap(GoStrs(<<PathB>>)),
            PathsMap(GoStr(PathB)), GoMap(EmptyMap), Bad}
      [] k = "org" ->
           {GoList(<<GoStr(X)>>), GoList(<<One>>), GoStrs(<<X, Y>>),
            GoStr(<<"x", SP, "y">>), Bad}
      [] k = "metadata" -> {GoMap(K("k") :> GoStr(X)), GoStr(X)}

\* the non-empty sets of at most MaxKeys keys
KeySets == {SeqToSet(ks) : ks \in [1..MaxKeys -> Keys]}

\* the dictionaries over the keys ks, each holding a value of its pool
RECURSIVE DictsOver(_)
DictsOver(ks) ==
    IF ks = {} THEN {EmptyMap}
    ELSE LET k == CHOOSE x \in ks : TRUE
         IN  {Put(dv[1], K(k), dv[2]) : dv \in DictsOver(ks \ {k}) \X Pool(k)}

\* JSON texts: objects, and texts that do not decode to a dictionary
JsonTexts ==
    {JObj(EmptyMap), JNull, JBad, JNum(2), JArr(<<>>), JStr(X),
     JObj(K("sub") :> JStr(X)),
     JObj(K("exp") :> JNum(3)),
     JObj(K("exp") :> JStr(X)),
     JObj(K("sub") :> JNull),
     JObj(K("roles") :> JArr(<<JStr(Admin), JStr(Editor)>>)),
     JObj(K("aud") :> JArr(<<JStr(X), JNum(2)>>)),
     JObj(K("acl") :> JObj(K("paths") :> JObj(K("/a") :> JObj(EmptyMap)))),
     JObj(K("paths") :> JArr(<<JStr(PathA)>>))}

\* arguments that are no dictionary with a key
OtherInputs ==
    {DataString(x) : x \in JsonTexts}
        \cup {DataBytes(x) : x \in JsonTexts}
        \cup {DataMap(EmptyMap), GoInt(5), GoNil, GoStrs(<<X>>)}

----------------------------------------------------------------------------
(* Construction: one call of NewUser. *)

NoCall == [op |-> "none", arg |-> NoArgs, val |-> NoArgs]

Init ==
    /\ phase = "init"
    /\ data = GoNil
    /\ u = NilUser
    /\ err = "nil"
    /\ ret = NoCall

NewUserWith(d) ==
    LET r == NewUser(d)
    IN  /\ data' = d
        /\ u' = r.user
        /\ err' = r.err
        /\ phase' = IF r.err = "nil" THEN "built" ELSE "failed"
        /\ UNCHANGED ret

NewUserCall ==
    /\ phase = "init"
    /\ \/ \E ks \in KeySets : \E m \in DictsOver(ks) : NewUserWith(DataMap(m))
       \/ \E d \in OtherInputs : NewUserWith(d)

Next == NewUserCall

Spec == Init /\ [][Next]_vars

----------------------------------------------------------------------------
(* Properties of construction. *)

Built == phase = "built"
Called == phase # "init"

\* the dictionary NewUser worked on
InputDict == DecodeData(data).m

PathSet(usr) ==
    IF usr.Claims.AccessList.isNil THEN {} ELSE DOMAIN usr.Claims.AccessList.Paths

RoleKeys == {"roles", "role", "groups", "group"}

\* what is stored under app_metadata.authorization.roles and realm_access.roles
SupplementaryRoleValues(m) ==
    (IF /\ Has(m, "app_metadata")
        /\ T(Get(m, "app_metadata")) = "map[string]interface{}"
        /\ Has(V(Get(m, "app_metadata")), "authorization")
        /\ T(Get(V(Get(m, "app_metadata")), "authorization")) = "map[string]interface{}"
        /\ Has(V(Get(V(Get(m, "app_metadata")), "authorization")), "roles")
     THEN {Get(V(Get(V(Get(m, "app_metadata")), "authorization")), "roles")}
     ELSE {})
    \cup
    (IF /\ Has(m, "realm_access")
        /\ T(Get(m, "realm_access")) = "map[string]interface{}"
        /\ Has(V(Get(m, "realm_access")), "roles")
     THEN {Get(V(Get(m, "realm_access")), "roles")}
     ELSE {})

NoSupplementaryRole(m) ==
    \A x \in SupplementaryRoleValues(m) :
        T(x) \in {"[]interface{}", "[]string"} => V(x) = <<>>

DefaultRoles ==
    /\ u.Claims.Roles = <<Anonymous, Guest>>
    /\ HasRoles(u, <<Anonymous, Guest>>)

\* C1 as stated: whenever NewUser accepts an input holding none of the keys
\* "roles", "role", "groups", "group", the role sequence is exactly
\* <<"anonymous", "guest">> and the role index holds both.
C1_DefaultRolesWithoutRoleKeys ==
    (Built /\ \A k \in RoleKeys : ~Has(InputDict, k)) => DefaultRoles

\* C1 amended: whenever NewUser accepts an input holding none of the four role
\* keys and in which neither app_metadata.authorization.roles nor
\* realm_access.roles is a non-empty list, the role sequence is exactly
\* <<"anonymous", "guest">> and the role index holds both.
C1_DefaultRolesWithoutAnyRole ==
    (/\ Built
     /\ \A k \in RoleKeys : ~Has(InputDict, k)
     /\ NoSupplementaryRole(InputDict)) => DefaultRoles

C1_Witness ==
    /\ Built
    /\ DOMAIN InputDict = {K("sub"), K("realm_access")}
    /\ Get(InputDict, "realm_access") = RolesMap(GoList(<<>>))
    /\ DefaultRoles

\* the strings of a generic list (Go's []interface{}, the list the JSON decoder yields)
ListStrings(x) == {V(e) : e \in {y \in SeqToSet(V(x)) : T(y) = "string"}}

TopLevelPaths(m) ==
    IF Has(m, "paths") /\ T(Get(m, "paths")) = "[]interface{}"
    THEN ListStrings(Get(m, "paths"))
    ELSE {}

AclPaths(m) ==
    IF /\ Has(m, "acl")
       /\ T(Get(m, "acl")) = "map[string]interface{}"
       /\ Has(V(Get(m, "acl")), "paths")
    THEN LET x == Get(V(Get(m, "acl")), "paths")
         IN  CASE T(x) = "[]interface{}" -> ListStrings(x)
               [] T(x) = "map[string]interface{}" -> DOMAIN V(x)
               [] OTHER -> {}
    ELSE {}

AclProjection(ps) == GoMap(K("paths") :> GoMap([p \in ps |-> GoMap(EmptyMap)]))

AudienceOf(m) ==
    IF ~Has(m, "aud") THEN <<>>
    ELSE LET a == Get(m, "aud")
         IN  CASE T(a) = "string" -> <<V(a)>>
               [] T(a) = "[]string" -> V(a)
               [] T(a) = "[]interface{}" -> StringsOf(V(a))

\* C5: with no audience entry "aud" is in neither projection; with exactly one
\* entry the full projection stores the bare string; with two or more it stores
\* the list; the reduced projection stores the list whenever there is an entry.
C5_AudienceProjection ==
    Built =>
        LET aud == AudienceOf(InputDict)
        IN  /\ u.Claims.Audience = aud
            /\ Len(aud) = 0 => ~Has(u.mkv, "aud") /\ ~Has(u.tkv, "aud")
            /\ Len(aud) = 1 => Has(u.mkv, "aud") /\ Get(u.mkv, "aud") = GoStr(aud[1])
            /\ Len(aud) >= 2 => Has(u.mkv, "aud") /\ Get(u.mkv, "aud") = GoStrs(aud)
            /\ Len(aud) >= 1 => Has(u.tkv, "aud") /\ Get(u.tkv, "aud") = GoStrs(aud)

C5_Witness ==
    /\ Built
    /\ Has(InputDict, "aud") /\ Get(InputDict, "aud") = GoList(<<GoStr(X)>>)
    /\ Get(u.mkv, "aud") = GoStr(X)
    /\ Get(u.tkv, "aud") = GoStrs(<<X>>)

\* an outer input that is no string, byte sequence or dictionary, an empty
\* dictionary, or a text that does not decode to a non-empty dictionary
Malformed(d) ==
    \/ T(d) \notin {"string", "[]uint8", "map[string]interface{}"}
    \/ T(d) = "map[string]interface{}" /\ V(d) = EmptyMap
    \/ T(d) \in {"string", "[]uint8"}
         /\ (T(V(d)) # "object" \/ V(V(d)) = EmptyMap)

\* a text json.Unmarshal rejects for a dictionary
Undecodable(d) ==
    T(d) \in {"string", "[]uint8"} /\ T(V(d)) \notin {"object", "null"}

\* C8 as stated: every malformed outer input fails with ErrInvalidUserDataType
\* and returns no User.
C8_MalformedIsInvalidUserData ==
    (Called /\ Malformed(data)) => (u.isNil /\ err = "ErrInvalidUserDataType")

\* C8 amended: every malformed outer input fails and returns no User, never
\* with a field-specific error: with the JSON decoder's own error when a string
\* or byte form is not the JSON text of a dictionary or of null, and with
\* ErrInvalidUserDataType in every other case.
C8_MalformedFailsStructurally ==
    (Called /\ Malformed(data)) =>
        /\ u.isNil
        /\ IF Undecodable(data)
           THEN err \in {"json.SyntaxError", "json.UnmarshalTypeError"}
           ELSE err = "ErrInvalidUserDataType"

C8_Witness ==
    /\ Called
    /\ data = DataString(JBad)
    /\ u.isNil
    /\ err = "json.SyntaxError"

\* the shapes section 4.1 of the specification accepts under each key
AcceptedShape(k, x) ==
    CASE k = "aud" -> T(x) \in {"string", "[]string", "[]interface{}"}
      [] k \in {"exp", "iat", "nbf"} -> IsNumeric(x)
      [] k \in {"jti", "iss", "sub", "origin", "addr", "picture", "username",
                "email", "mail"} -> T(x) = "string"
      [] k = "name" -> T(x) \in {"string", "[]interface{}"}
      [] k \in RoleKeys \cup {"scopes", "scope", "org"} ->
           T(x) \in {"string", "[]string", "[]interface{}"}
      [] k = "paths" -> T(x) = "[]interface{}"
      [] k \in {"acl", "metadata", "app_metadata", "realm_access"} ->
           T(x) = "map[string]interface{}"

\* C9: if a recognized top-level key ("paths" and "acl" included) is present
\* with a value whose shape is not one its field accepts, NewUser fails with an
\* error and returns no User.
C9_AllOrNothing ==
    (/\ Called
     /\ T(data) = "map[string]interface{}"
     /\ \E k \in Keys : Has(V(data), k) /\ ~AcceptedShape(k, Get(V(data), k)))
    => (u.isNil /\ err # "nil")

\* what is stored under app_metadata.authorization.roles, if anything
AppMetadataRoleValues(m) ==
    IF /\ Has(m, "app_metadata")
       /\ T(Get(m, "app_metadata")) = "map[string]interface{}"
       /\ Has(V(Get(m, "app_metadata")), "authorization")
       /\ T(Get(V(Get(m, "app_metadata")), "authorization")) = "map[string]interface{}"
       /\ Has(V(Get(V(Get(m, "app_metadata")), "authorization")), "roles")
    THEN <<Get(V(Get(V(Get(m, "app_metadata")), "authorization")), "roles")>>
    ELSE <<>>

\* what is stored under realm_access.roles, if anything
RealmAccessRoleValues(m) ==
    IF /\ Has(m, "realm_access")
       /\ T(Get(m, "realm_access")) = "map[string]interface{}"
       /\ Has(V(Get(m, "realm_access")), "roles")
    THEN <<Get(V(Get(m, "realm_access")), "roles")>>
    ELSE <<>>

\* the string elements of a role list, in order
RoleStrings(x) ==
    CASE T(x) = "[]interface{}" ->
           StringsOf(SelectSeq(V(x), LAMBDA e : T(e) = "string"))
      [] T(x) = "[]string" -> V(x)
      [] OTHER -> <<>>

RECURSIVE Concat(_)
Concat(ss) == IF ss = <<>> THEN <<>> ELSE Head(ss) \o Concat(Tail(ss))

\* the string elements of the two supplementary sources, in source order
SupplementaryStrings(m) ==
    Concat([i \in 1..Len(AppMetadataRoleValues(m) \o RealmAccessRoleValues(m)) |->
               RoleStrings((AppMetadataRoleValues(m) \o RealmAccessRoleValues(m))[i])])

\* a supplementary source holds a list with an element that is not a string
NonStringSupplementaryElement(m) ==
    \E x \in SupplementaryRoleValues(m) :
        T(x) = "[]interface{}" /\ ~AllStrings(V(x))

SupplementaryAreLists(m) ==
    \A x \in SupplementaryRoleValues(m) : T(x) \in {"[]interface{}", "[]string"}

OnlySupplementaryKeys(m) ==
    DOMAIN m \subseteq {K("app_metadata"), K("realm_access")}

IsSuffix(s, t) ==
    Len(s) <= Len(t) /\ SubSeq(t, Len(t) - Len(s) + 1, Len(t)) = s

FieldOf(k) ==
    CASE k \in {"email", "mail"} -> "email"
      [] k \in RoleKeys \cup {"app_metadata", "realm_access"} -> "roles"
      [] k \in {"scopes", "scope"} -> "scopes"
      [] k \in {"paths", "acl"} -> "acl"
      [] OTHER -> k

\* the errors NewUser returns for a dictionary holding the key k alone
ShapeErrors ==
    [k \in Keys |-> {NewUser(DataMap(K(k) :> v)).err : v \in Pool(k)} \ {"nil"}]

\* the one key of the input dictionary
SoleKey(k) == DOMAIN InputDict = {K(k)}

\* C12: when NewUser rejects a value because of its shape, the error kind
\* identifies the field that was malformed: no key of a different field
\* ("username" and "metadata", for example) is rejected with the same error.
C12_ErrorIdentifiesField ==
    \A k \in Keys :
        (Called /\ SoleKey(k) /\ err # "nil") =>
            \A k2 \in Keys : FieldOf(k2) # FieldOf(k) => err \notin ShapeErrors[k2]

\* the keys NewUser reads before "email" and "mail"
KeysBeforeEmail == {"aud", "exp", "jti", "iat", "iss", "nbf", "sub"}

\* the email an input whose "email" and "mail" are strings resolves to
ResolvedEmail(m) ==
    IF Has(m, "mail") THEN V(Get(m, "mail"))
    ELSE IF Has(m, "email") THEN V(Get(m, "email"))
    ELSE <<>>

NonStringEmail(m) ==
    \E ma \in {"email", "mail"} : Has(m, ma) /\ T(Get(m, ma)) # "string"

\* C13: "email" then "mail" are read, each whenever present: the value of
\* "mail" is the resolved email when both are strings; a value under either
\* key that is not a string fails with the email type error; the resolved
\* email is in both projections under "mail" exactly when it is not empty.
C13_EmailResolution ==
    /\ (Called /\ NonStringEmail(InputDict)) =>
           /\ u.isNil
           /\ err # "nil"
           /\ (\A k \in KeysBeforeEmail : ~Has(InputDict, k))
                 => err = "ErrInvalidEmailClaimType"
    /\ Built =>
           /\ ~NonStringEmail(InputDict)
           /\ u.Claims.Email = ResolvedEmail(InputDict)
           /\ IF ResolvedEmail(InputDict) # <<>>
              THEN /\ Has(u.mkv, "mail") /\ Has(u.tkv, "mail")
                   /\ Get(u.mkv, "mail") = GoStr(ResolvedEmail(InputDict))
                   /\ Get(u.tkv, "mail") = GoStr(ResolvedEmail(InputDict))
              ELSE ~Has(u.mkv, "mail") /\ ~Has(u.tkv, "mail")
           /\ ~Has(u.mkv, "email") /\ ~Has(u.tkv, "email")

C13_Witness ==
    /\ Built
    /\ DOMAIN InputDict = {K("email"), K("mail")}
    /\ Get(InputDict, "email") = GoStr(Email1)
    /\ Get(InputDict, "mail") = GoStr(Email2)
    /\ u.Claims.Email = Email2
    /\ Get(u.mkv, "mail") = GoStr(Email2)
    /\ Get(u.tkv, "mail") = GoStr(Email2)

----------------------------------------------------------------------------
(* Role queries and validity on constructed users. *)

MaxQuery == 2           \* roles in one query
MaxTime == 3            \* the latest current time tried

QueryKeys == {"roles", "role", "realm_access", "exp", "sub"}
QueryKeySets == {ks \in KeySets : ks \subseteq QueryKeys}
QueryRoles == {Admin, Editor, Guest}
Queries == UNION {[1..n -> QueryRoles] : n \in 0..MaxQuery}
Times == 0..MaxTime

NewUserForQueries ==
    /\ phase = "init"
    /\ \E ks \in QueryKeySets : \E m \in DictsOver(ks) : NewUserWith(DataMap(m))

HasRoleCall(Q) ==
    /\ Built
    /\ \E q \in Q : ret' = [op |-> "HasRole", arg |-> q, val |-> HasRole(u, q)]
    /\ UNCHANGED <<phase, data, u, err>>

HasRolesCall(Q) ==
    /\ Built
    /\ \E q \in Q : ret' = [op |-> "HasRoles", arg |-> q, val |-> HasRoles(u, q)]
    /\ UNCHANGED <<phase, data, u, err>>

ValidCall ==
    /\ Built
    /\ \E now \in Times :
         ret' = [op |-> "Valid", arg |-> now, val |-> Valid(u.Claims, now)]
    /\ UNCHANGED <<phase, data, u, err>>

NextQuery ==
    \/ NewUserForQueries
    \/ HasRoleCall(Queries)
    \/ HasRolesCall(Queries)
    \/ ValidCall

SpecQuery == Init /\ [][NextQuery]_vars

\* C2: after a successful NewUser, HasRole(Q) is true exactly when some element
\* of Q occurs in Claims.Roles and HasRoles(Q) exactly when every element of Q
\* does; so HasRole() is false and HasRoles() is true.
C2_RoleQueries ==
    /\ ret.op = "HasRole" =>
         /\ ret.val = (\E i \in DOMAIN ret.arg : ret.arg[i] \in SeqToSet(u.Claims.Roles))
         /\ ret.arg = <<>> => ret.val = FALSE
    /\ ret.op = "HasRoles" =>
         /\ ret.val = (\A i \in DOMAIN ret.arg : ret.arg[i] \in SeqToSet(u.Claims.Roles))
         /\ ret.arg = <<>> => ret.val = TRUE

C2_Witness ==
    /\ Built
    /\ u.Claims.Roles = <<Admin, Editor>>
    /\ ret.op = "HasRoles" /\ ret.arg = <<Editor, Admin>> /\ ret.val = TRUE

\* C6 as stated: Valid fails with the expired-token error when the expiration
\* is before the current time, passes when it is at or after it, and passes
\* when the expiration is zero because "exp" was omitted.
C6_ZeroExpirationPasses ==
    ret.op = "Valid" =>
        /\ u.Claims.ExpiresAt < ret.arg => ret.val = "ErrExpiredToken"
        /\ u.Claims.ExpiresAt >= ret.arg => ret.val = "nil"
        /\ ~Has(InputDict, "exp") => ret.val = "nil"

\* C6 amended: Valid fails with the expired-token error when the expiration is
\* before the current time and passes when it is at or after it; an omitted
\* "exp" leaves the expiration zero, which is compared like any other value,
\* so such claims are expired at every current time after the epoch.
C6_ExpiredIffBeforeNow ==
    ret.op = "Valid" =>
        /\ u.Claims.ExpiresAt < ret.arg => ret.val = "ErrExpiredToken"
        /\ u.Claims.ExpiresAt >= ret.arg => ret.val = "nil"
        /\ ~Has(InputDict, "exp") =>
             /\ u.Claims.ExpiresAt = 0
             /\ ret.arg > 0 => ret.val = "ErrExpiredToken"

C6_Witness ==
    /\ Built
    /\ ~Has(InputDict, "exp")
    /\ ret.op = "Valid" /\ ret.arg = 1 /\ ret.val = "ErrExpiredToken"

----------------------------------------------------------------------------
(* The frontend-link accumulator. *)

MaxBatch == 2           \* links in one batch
MaxLinks == 4           \* links held before a further batch is added

LinkA == K("a")
LinkB == K("b")
LinkC == K("c")
LinkNames == {LinkA, LinkB, LinkC}
LinkSeqs == UNION {[1..n -> LinkNames] : n \in 0..MaxBatch}

LinkInputs ==
    {GoStr(l) : l \in LinkNames}
        \cup {GoStrs(b) : b \in LinkSeqs}
        \cup {GoList([i \in DOMAIN b |-> GoStr(b[i])]) : b \in LinkSeqs}
        \cup {GoList(<<GoStr(LinkA), One>>), Bad}

SampleData == DataMap(K("sub") :> GoStr(X))

NewUserSample ==
    /\ phase = "init"
    /\ NewUserWith(SampleData)

AddFrontendLinksCall(S) ==
    /\ Built
    /\ Len(u.FrontendLinks) < MaxLinks
    /\ \E val \in S :
         LET r == AddFrontendLinks(u, val)
         IN  /\ u' = r.user
             /\ err' = r.err
             /\ ret' = [op |-> "AddFrontendLinks", arg |-> val,
                        val |-> u.FrontendLinks]
    /\ UNCHANGED <<phase, data>>

NextLinks ==
    \/ NewUserSample
    \/ AddFrontendLinksCall(LinkInputs)

SpecLinks == Init /\ [][NextLinks]_vars

\* the strings of a batch
BatchEntries(val) ==
    CASE T(val) = "string" -> <<V(val)>>
      [] T(val) = "[]string" -> V(val)
      [] T(val) = "[]interface{}" -> StringsOf(V(val))

\* the entries of a batch that are not in seen, each once, in input order
RECURSIVE OnceEach(_, _)
OnceEach(entries, seen) ==
    IF entries = <<>> THEN <<>>
    ELSE IF Head(entries) \in seen THEN OnceEach(Tail(entries), seen)
    ELSE <<Head(entries)>> \o OnceEach(Tail(entries), seen \cup {Head(entries)})

\* C3: a successful AddFrontendLinks keeps the links held before as a prefix
\* and appends the entries of the batch in input order, each once even when
\* repeated in the batch and never when already held.
C3_LinksAreOrderedUnion ==
    (ret.op = "AddFrontendLinks" /\ err = "nil") =>
        u.FrontendLinks = ret.val \o OnceEach(BatchEntries(ret.arg), SeqToSet(ret.val))

----------------------------------------------------------------------------
(* The checkpoint parser. *)

MaxDirective == 3       \* chunks in one directive
MaxEntries == 2         \* directives in one list

Require == K("require")
Mfa     == K("mfa")
RequireMfa == <<"require", SP, "mfa">>

DirectiveChunks == {"require", "mfa", "otp", SP}
Directives == UNION {[1..n -> DirectiveChunks] : n \in 0..MaxDirective}

ListedDirectives ==
    {RequireMfa, <<"require", SP, "otp">>, <<"require">>, <<"mfa", SP, "require">>}
DirectiveLists == UNION {[1..n -> ListedDirectives] : n \in 0..MaxEntries}

CheckpointInputs ==
    {GoStr(d) : d \in Directives}
        \cup {GoStrs(ds) : ds \in DirectiveLists}
        \cup {GoList([i \in DOMAIN ds |-> GoStr(ds[i])]) : ds \in DirectiveLists}
        \cup {GoList(<<GoStr(RequireMfa), One>>), Bad, GoNil}

NewCheckpointsCall ==
    /\ phase = "init"
    /\ \E val \in CheckpointInputs :
         LET r == NewCheckpoints(val)
         IN  /\ ret' = [op |-> "NewCheckpoints", arg |-> val, val |-> r.checkpoints]
             /\ err' = r.err
    /\ phase' = "done"
    /\ UNCHANGED <<data, u>>

NextCheckpoints == NewCheckpointsCall

SpecCheckpoints == Init /\ [][NextCheckpoints]_vars

\* the directives an input yields, when it yields any
YieldsDirectives(val) ==
    \/ T(val) \in {"string", "[]string"}
    \/ T(val) = "[]interface{}" /\ AllStrings(V(val))

MfaCheckpoint(id) ==
    [ID |-> id, Name |-> K("Multi-factor authentication"), Type |-> Mfa,
     Parameters |-> <<>>, Passed |-> FALSE, FailedAttempts |-> 0]

\* C7: NewCheckpoints succeeds only when its input yields at least one
\* directive and every directive tokenizes to exactly "require" "mfa"; it then
\* returns one Checkpoint per directive in input order, named "Multi-factor
\* authentication", of type "mfa", with its zero-based position as ID; anything
\* else fails the whole call with no checkpoint, an empty list with
\* ErrCheckpointEmpty.
C7_CheckpointsAllOrNothing ==
    ret.op = "NewCheckpoints" =>
        LET good == /\ YieldsDirectives(ret.arg)
                    /\ Len(BatchEntries(ret.arg)) >= 1
                    /\ \A i \in DOMAIN BatchEntries(ret.arg) :
                         LET d == DecodeArgs(BatchEntries(ret.arg)[i])
                         IN  d.err = "nil" /\ d.args = <<Require, Mfa>>
        IN  /\ (err = "nil") = good
            /\ good => ret.val = [i \in DOMAIN BatchEntries(ret.arg) |-> MfaCheckpoint(i - 1)]
            /\ ~good => ret.val = <<>>
            /\ (YieldsDirectives(ret.arg) /\ BatchEntries(ret.arg) = <<>>)
                  => err = "ErrCheckpointEmpty"

C7_Witness ==
    /\ ret.op = "NewCheckpoints"
    /\ ret.arg = GoStrs(<<RequireMfa, RequireMfa>>)
    /\ err = "nil"
    /\ ret.val = <<MfaCheckpoint(0), MfaCheckpoint(1)>>

----------------------------------------------------------------------------
(* The aggregate after construction: every operation of a User. *)

MaxFailedAttempts == 2  \* failed attempts counted on one checkpoint

FrameInputs ==
    {SampleData,
     DataMap(K("roles") :> GoStrs(<<Admin, Editor>>) @@ K("aud") :> GoStr(X)),
     DataMap(K("acl") :> PathsMap(PathDict({PathA})) @@ K("exp") :> GoInt(1)),
     DataMap(K("metadata") :> GoMap(K("k") :> GoStr(X))),
     DataString(JObj(K("roles") :> JArr(<<JStr(Admin), JStr(Editor)>>)))}

FrameLinks == {GoStr(LinkA), GoStrs(<<LinkA, LinkB>>), Bad}
FrameQueries == {<<>>, <<Admin>>, <<Admin, Guest>>}
FrameFields == {K("roles"), K("aud"), K("exp"), K("sub"), K("none")}
FrameMaps == {EmptyMap, K("k") :> X}

NewUserForFrame ==
    /\ phase = "init"
    /\ \E d \in FrameInputs : NewUserWith(d)

\* lines 187-189
AsMapCall ==
    /\ Built
    /\ ret' = [op |-> "AsMap", arg |-> NoArgs, val |-> u.mkv]
    /\ UNCHANGED <<phase, data, u, err>>

\* lines 192-194
GetDataCall ==
    /\ Built
    /\ ret' = [op |-> "GetData", arg |-> NoArgs, val |-> u.tkv]
    /\ UNCHANGED <<phase, data, u, err>>

GetClaimValueByFieldCall ==
    /\ Built
    /\ \E k \in FrameFields :
         ret' = [op |-> "GetClaimValueByField", arg |-> k,
                 val |-> GetClaimValueByField(u, k)]
    /\ UNCHANGED <<phase, data, u, err>>

\* lines 197-200
SetRequestHeaders ==
    /\ Built
    /\ \E m \in FrameMaps : u' = [u EXCEPT !.requestHeaders = m]
    /\ UNCHANGED <<phase, data, err, ret>>

\* lines 208-211
SetRequestIdentity ==
    /\ Built
    /\ \E m \in FrameMaps : u' = [u EXCEPT !.requestIdentity = [k \in DOMAIN m |-> GoStr(m[k])]]
    /\ UNCHANGED <<phase, data, err, ret>>

\* the exported flags, written by the authorization flow
SetAuthorized ==
    /\ Built
    /\ \E b \in BOOLEAN : u' = [u EXCEPT !.Authorized = b]
    /\ UNCHANGED <<phase, data, err, ret>>

SetLocked ==
    /\ Built
    /\ \E b \in BOOLEAN : u' = [u EXCEPT !.Locked = b]
    /\ UNCHANGED <<phase, data, err, ret>>

SetCached ==
    /\ Built
    /\ \E b \in BOOLEAN : u' = [u EXCEPT !.Cached = b]
    /\ UNCHANGED <<phase, data, err, ret>>

\* the exported checkpoint list, set from the configured directives
SetCheckpoints ==
    /\ Built
    /\ u' = [u EXCEPT !.Checkpoints = NewCheckpoints(GoStr(RequireMfa)).checkpoints]
    /\ UNCHANGED <<phase, data, err, ret>>

PassCheckpoint ==
    /\ Built
    /\ \E i \in DOMAIN u.Checkpoints : u' = [u EXCEPT !.Checkpoints[i].Passed = TRUE]
    /\ UNCHANGED <<phase, data, err, ret>>

FailCheckpoint ==
    /\ Built
    /\ \E i \in DOMAIN u.Checkpoints :
         /\ u.Checkpoints[i].FailedAttempts < MaxFailedAttempts
         /\ u' = [u EXCEPT !.Checkpoints[i].FailedAttempts = @ + 1,
                           !.Checkpoints[i].Passed = FALSE]
    /\ UNCHANGED <<phase, data, err, ret>>

NextFrame ==
    \/ NewUserForFrame
    \/ AddFrontendLinksCall(FrameLinks)
    \/ SetRequestHeaders
    \/ SetRequestIdentity
    \/ HasRoleCall(FrameQueries)
    \/ HasRolesCall(FrameQueries)
    \/ GetClaimValueByFieldCall
    \/ AsMapCall
    \/ GetDataCall
    \/ SetAuthorized
    \/ SetLocked
    \/ SetCached
    \/ SetCheckpoints
    \/ PassCheckpoint
    \/ FailCheckpoint

SpecFrame == Init /\ [][NextFrame]_vars

\* C10: once NewUser has returned a User, no operation of the aggregate
\* changes the full projection, the reduced projection or the role index.
C10_ProjectionsAreFrozen ==
    [][(phase = "built" /\ phase' = "built") =>
          (u'.mkv = u.mkv /\ u'.tkv = u.tkv /\ u'.rkv = u.rkv)]_vars

C10_Witness ==
    /\ Built
    /\ u.FrontendLinks = <<LinkA, LinkB>>
    /\ u.requestHeaders # EmptyMap
    /\ u.Authorized /\ u.Locked /\ u.Cached
    /\ Len(u.Checkpoints) = 1 /\ u.Checkpoints[1].Passed
    /\ ret.op = "AsMap" /\ ret.val = u.mkv
    /\ Has(u.mkv, "aud") /\ u.rkv = RoleIndex(<<Admin, Editor>>)

====
